---- MODULE Spec2Model ----
(***************************************************************************)
(* A model of commbase_http_server.py: main() (argument parsing, server    *)
(* creation, optional TLS wrapping, serve_forever) and the request handler *)
(* SingleDirectoryHTTPRequestHandler (__init__ and translate_path).        *)
(*                                                                         *)
(* Strings are sequences of one-character strings.  Two characters that    *)
(* only decoding can produce are written by their code points: "U+0022"    *)
(* (the double quote) and "U+FFFD" (the replacement character).            *)
(* os.path is posixpath (the script is started through /usr/bin/env).      *)
(***************************************************************************)
EXTENDS Integers, Sequences, FiniteSets, TLC

VARIABLES
    args,       \* sys.argv[1:], a sequence of tokens
    pc,         \* position of main()
    root_dir,   \* main's local root_dir (captured by the handler lambda)
    base_url,   \* main's local base_url
    port,       \* main's local port
    cert_file,  \* main's local cert_file
    key_file,   \* main's local key_file
    reads,      \* positions of args the flag loop has indexed (1-based)
    exc,        \* the uncaught exception that ended main(), or "none"
    exit_code,  \* the process's exit status, or -1 while it runs
    stdout,     \* the lines printed so far (by kind)
    sock,       \* httpd.socket: "none", "plain" or "tls"
    clients,    \* client connections that are still to arrive
    hpc,        \* per handler instance: "free", "new", "handling", "finished"
    hroot,      \* per handler instance: self.root_dir
    hreqs,      \* per handler instance: requests handled on its connection
    log,        \* every translate_path call: path, root seen, result, error
    served      \* number of translate_path calls so far

vars == <<args, pc, root_dir, base_url, port, cert_file, key_file, reads, exc,
          exit_code, stdout, sock, clients, hpc, hroot, hreqs, log, served>>

mainvars == <<args, pc, root_dir, base_url, port, cert_file, key_file, reads,
              exc, exit_code, stdout, sock>>

----------------------------------------------------------------------------
(* Bounds *)

MaxPieces == 4        \* pieces a request path is built from
MaxFlagArgs == 4      \* arguments after the first one
MaxConns == 2         \* connections (handler instances) the server accepts
BootConns == 1        \* connections when every command line is explored
MaxReqsPerConn == 2   \* requests handled on one connection

----------------------------------------------------------------------------
(* Values *)

\* Python's None and an attribute that has not been assigned: one-element
\* sequences whose element is no character, so they differ from every string.
None == <<"None">>
Unset == <<"Unset">>

\* The outcome of a call: the value returned, or the exception raised.
Ok(v) == [raised |-> "none", value |-> v]
Raise(e) == [raised |-> e, value |-> <<>>]

SLASH == "/"
DOT == "."
PERCENT == "%"
REPLACEMENT == "U+FFFD"

\* The hexadecimal digits among the characters of the model.
HexDigits == {"2", "5", "e", "F"}

HexVal(c) == CASE c = "2" -> 2 [] c = "5" -> 5 [] c = "e" -> 14 [] c = "F" -> 15

----------------------------------------------------------------------------
(* Sequence helpers *)

RECURSIVE Concat(_)
Concat(ss) == IF ss = <<>> THEN <<>> ELSE Head(ss) \o Concat(Tail(ss))

SeqsUpTo(S, n) == UNION {[1..k -> S] : k \in 0..n}

IsPrefix(a, b) == Len(a) <= Len(b) /\ SubSeq(b, 1, Len(a)) = a

startswith(s, c) == s /= <<>> /\ s[1] = c

endswith(s, c) == s /= <<>> /\ s[Len(s)] = c

\* str.split("/")
RECURSIVE SplitFrom(_, _, _)
SplitFrom(s, i, cur) ==
    IF i > Len(s) THEN <<cur>>
    ELSE IF s[i] = SLASH THEN <<cur>> \o SplitFrom(s, i + 1, <<>>)
    ELSE SplitFrom(s, i + 1, Append(cur, s[i]))

split(s) == SplitFrom(s, 1, <<>>)

\* "/".join(comps)
RECURSIVE joinslash(_)
joinslash(comps) ==
    IF comps = <<>> THEN <<>>
    ELSE IF Len(comps) = 1 THEN comps[1]
    ELSE comps[1] \o <<SLASH>> \o joinslash(Tail(comps))

----------------------------------------------------------------------------
(* urllib.parse.unquote, as translate_path calls it (utf-8, errors=replace) *)

\* bytes.decode("utf-8", "replace") of one decoded byte.  No pair of the
\* model's hex digits is a continuation byte (0x80..0xBF), so every byte
\* >= 0x80 is an incomplete or invalid sequence and becomes U+FFFD.
DecodeByte(b) ==
    CASE b = 34 -> "U+0022"
      [] b = 37 -> PERCENT
      [] b = 46 -> DOT
      [] b = 47 -> SLASH
      [] b = 82 -> "R"
      [] b = 85 -> "U"
      [] b = 94 -> "^"
      [] b = 95 -> "_"
      [] OTHER -> REPLACEMENT

\* A raising decoder: what unquote would be with errors="strict" and no
\* pass-through of malformed escapes.
RECURSIVE strictOk(_, _)
strictOk(s, i) ==
    IF i > Len(s) THEN TRUE
    ELSE IF s[i] = PERCENT
         THEN /\ i + 2 <= Len(s)
              /\ s[i+1] \in HexDigits
              /\ s[i+2] \in HexDigits
              /\ 16 * HexVal(s[i+1]) + HexVal(s[i+2]) < 128
              /\ strictOk(s, i + 3)
         ELSE strictOk(s, i + 1)

\* The scan of unquote_to_bytes: after a "%", two hex digits become a byte;
\* anything else leaves the "%" in place and the scan goes on after it.
RECURSIVE unquoteFrom(_, _)
unquoteFrom(s, i) ==
    IF i > Len(s) THEN <<>>
    ELSE IF s[i] = PERCENT /\ i + 2 <= Len(s)
            /\ s[i+1] \in HexDigits /\ s[i+2] \in HexDigits
         THEN <<DecodeByte(16 * HexVal(s[i+1]) + HexVal(s[i+2]))>>
              \o unquoteFrom(s, i + 3)
         ELSE <<s[i]>> \o unquoteFrom(s, i + 1)

unquoteStrict(s) == IF strictOk(s, 1) THEN Ok(unquoteFrom(s, 1)) ELSE Raise("ValueError")

\* unquote has no raising path for a str argument.
unquote(s) == Ok(unquoteFrom(s, 1))

----------------------------------------------------------------------------
(* str.lstrip("/") *)

\* Removes one leading "/" only.
lstripOne(s) == IF startswith(s, SLASH) THEN Tail(s) ELSE s

RECURSIVE lstrip(_)
lstrip(s) == IF startswith(s, SLASH) THEN lstrip(Tail(s)) ELSE s

----------------------------------------------------------------------------
(* posixpath.join, isabs, normpath, abspath *)

join(a, b) ==
    IF startswith(b, SLASH) THEN b
    ELSE IF a = <<>> \/ endswith(a, SLASH) THEN a \o b
    ELSE a \o <<SLASH>> \o b

isabs(s) == startswith(s, SLASH)

\* The loop of normpath over the components.
RECURSIVE normcomps(_, _, _)
normcomps(comps, initial_slashes, new_comps) ==
    IF comps = <<>> THEN new_comps
    ELSE LET comp == Head(comps)
             dd == <<DOT, DOT>>
         IN  IF comp = <<>> \/ comp = <<DOT>>
             THEN normcomps(Tail(comps), initial_slashes, new_comps)
             ELSE IF comp /= dd
                     \/ (initial_slashes = 0 /\ new_comps = <<>>)
                     \/ (new_comps /= <<>> /\ new_comps[Len(new_comps)] = dd)
             THEN normcomps(Tail(comps), initial_slashes, Append(new_comps, comp))
             ELSE IF new_comps /= <<>>
             THEN normcomps(Tail(comps), initial_slashes,
                            SubSeq(new_comps, 1, Len(new_comps) - 1))
             ELSE normcomps(Tail(comps), initial_slashes, new_comps)

normpath(path) ==
    IF path = <<>> THEN <<DOT>>
    ELSE LET initial_slashes ==
                 IF ~startswith(path, SLASH) THEN 0
                 ELSE IF Len(path) >= 2 /\ path[2] = SLASH
                         /\ ~(Len(path) >= 3 /\ path[3] = SLASH) THEN 2
                 ELSE 1
             body == joinslash(normcomps(split(path), initial_slashes, <<>>))
             res == [i \in 1..initial_slashes |-> SLASH] \o body
         IN  IF res = <<>> THEN <<DOT>> ELSE res

\* os.getcwd()
Cwd == <<"/", "h">>

abspath(path) == normpath(IF isabs(path) THEN path ELSE join(Cwd, path))

----------------------------------------------------------------------------
(* SingleDirectoryHTTPRequestHandler.translate_path *)

\* os.path.join(self.root_dir, ...) with self.root_dir missing or None raises.
joinroot(self_root, rest) ==
    IF self_root = Unset THEN Raise("AttributeError")
    ELSE IF self_root = None THEN Raise("TypeError")
    ELSE Ok(join(self_root, rest))

\* Strips before it decodes, so an encoded leading "/" survives the strip.
translate_path_strip_first(self_root, path) ==
    LET d == unquote(lstrip(path))
    IN  IF d.raised /= "none" THEN d ELSE joinroot(self_root, d.value)

\* Normalises the joined path (collapses "." and ".." segments).
translate_path_normalised(self_root, path) ==
    LET d == unquote(path)
        j == joinroot(self_root, lstrip(d.value))
    IN  IF d.raised /= "none" THEN d
        ELSE IF j.raised /= "none" THEN j ELSE Ok(normpath(j.value))

\* Uses the strict decoder and lets its error out.
translate_path_strict(self_root, path) ==
    LET d == unquoteStrict(path)
    IN  IF d.raised /= "none" THEN d ELSE joinroot(self_root, lstrip(d.value))

translate_path(self_root, path) ==
    LET d == unquote(path)
    IN  IF d.raised /= "none" THEN d ELSE joinroot(self_root, lstrip(d.value))

----------------------------------------------------------------------------
(* Command-line tokens *)

HOST == <<"-", "-", "h", "o", "s", "t">>
PORT == <<"-", "-", "p", "o", "r", "t">>
CERT == <<"-", "-", "c", "e", "r", "t">>
KEY == <<"-", "-", "k", "e", "y">>

Flags == {HOST, PORT, CERT, KEY}

\* Tokens that may follow the first argument: the flags, a token that is a
\* number as well as a file or host name, and the empty string.
RestTokens == Flags \cup {<<"8", "0">>, <<>>}

\* Tokens that may come first: an absolute directory, and a flag (which main
\* takes for a relative directory name).
FirstTokens == {<<"/", "s">>, CERT}

Argvs == {<<>>} \cup
         {<<d>> \o r : d \in FirstTokens, r \in SeqsUpTo(RestTokens, MaxFlagArgs)}

Digits == {"0", "1", "2", "3", "4", "5", "6", "7", "8", "9"}

DigitVal(c) ==
    CASE c = "0" -> 0 [] c = "1" -> 1 [] c = "2" -> 2 [] c = "3" -> 3
      [] c = "4" -> 4 [] c = "5" -> 5 [] c = "6" -> 6 [] c = "7" -> 7
      [] c = "8" -> 8 [] c = "9" -> 9

RECURSIVE DecimalValue(_)
DecimalValue(s) ==
    IF s = <<>> THEN 0
    ELSE 10 * DecimalValue(SubSeq(s, 1, Len(s) - 1)) + DigitVal(s[Len(s)])

\* int(s) for the tokens of the model: digits only, or ValueError.
int(s) ==
    IF s /= <<>> /\ \A i \in 1..Len(s) : s[i] \in Digits
    THEN Ok(DecimalValue(s)) ELSE Raise("ValueError")

DefaultHost == <<"1", "2", "7", ".", "0", ".", "0", ".", "1">>
DefaultPort == 5050

----------------------------------------------------------------------------
(* main(): the flag loop.  Position k here is Python's index k - 1. *)

FlagDefaults ==
    [base_url |-> DefaultHost, port |-> DefaultPort, cert_file |-> None,
     key_file |-> None, reads |-> {}, raised |-> "none"]

\* The loop body without the "i + 1 < len(args)" tests: the value is indexed
\* whenever the flag matches.
FlagStepUnchecked(st, a, k) ==
    LET seen == [st EXCEPT !.reads = @ \cup {k}]
        val == [seen EXCEPT !.reads = @ \cup {k + 1}]
    IN  IF a[k] \in Flags /\ k + 1 > Len(a) THEN [val EXCEPT !.raised = "IndexError"]
        ELSE IF a[k] = HOST THEN [val EXCEPT !.base_url = a[k + 1]]
        ELSE IF a[k] = PORT
             THEN IF int(a[k + 1]).raised = "none"
                  THEN [val EXCEPT !.port = int(a[k + 1]).value]
                  ELSE [val EXCEPT !.raised = int(a[k + 1]).raised]
        ELSE IF a[k] = CERT THEN [val EXCEPT !.cert_file = a[k + 1]]
        ELSE IF a[k] = KEY THEN [val EXCEPT !.key_file = a[k + 1]]
        ELSE seen

\* One iteration of the loop body: args[i] is compared, and args[i + 1] is
\* read only in a branch whose test "i + 1 < len(args)" has held.
FlagStep(st, a, k) ==
    LET seen == [st EXCEPT !.reads = @ \cup {k}]
        val == [seen EXCEPT !.reads = @ \cup {k + 1}]
    IN  IF a[k] = HOST /\ k < Len(a) THEN [val EXCEPT !.base_url = a[k + 1]]
        ELSE IF a[k] = PORT /\ k < Len(a)
             THEN IF int(a[k + 1]).raised = "none"
                  THEN [val EXCEPT !.port = int(a[k + 1]).value]
                  ELSE [val EXCEPT !.raised = int(a[k + 1]).raised]
        ELSE IF a[k] = CERT /\ k < Len(a) THEN [val EXCEPT !.cert_file = a[k + 1]]
        ELSE IF a[k] = KEY /\ k < Len(a) THEN [val EXCEPT !.key_file = a[k + 1]]
        ELSE seen

\* for i in range(1, len(args)): an exception ends the loop.
RECURSIVE FlagLoop(_, _, _)
FlagLoop(st, a, k) ==
    IF k > Len(a) \/ st.raised /= "none" THEN st
    ELSE FlagLoop(FlagStep(st, a, k), a, k + 1)

\* Truthiness of "cert_file or key_file".
UseTLSEither(cert, key) ==
    (cert /= None /\ cert /= <<>>) \/ (key /= None /\ key /= <<>>)

\* Truthiness of "cert_file and key_file": None and "" are false.
UseTLS(cert, key) ==
    cert /= None /\ cert /= <<>> /\ key /= None /\ key /= <<>>

----------------------------------------------------------------------------
(* main(): the steps *)

Handlers == 1..MaxConns

\* Prints the usage line and goes on without leaving.
ParseDirectoryNoExit ==
    /\ pc = "start"
    /\ IF Len(args) > 0
       THEN /\ root_dir' = abspath(args[1])
            /\ UNCHANGED stdout
       ELSE /\ stdout' = Append(stdout, "usage")
            /\ UNCHANGED root_dir
    /\ pc' = "flags"
    /\ UNCHANGED <<args, base_url, port, cert_file, key_file, reads, exc,
                   exit_code, sock, clients, hpc, hroot, hreqs, log, served>>

\* args = sys.argv[1:]; the directory, or the usage line and sys.exit(1).
ParseDirectory ==
    /\ pc = "start"
    /\ IF Len(args) > 0
       THEN /\ root_dir' = abspath(args[1])
            /\ pc' = "flags"
            /\ UNCHANGED <<stdout, exit_code>>
       ELSE /\ stdout' = Append(stdout, "usage")
            /\ exit_code' = 1
            /\ pc' = "exited"
            /\ UNCHANGED root_dir
    /\ UNCHANGED <<args, base_url, port, cert_file, key_file, reads, exc,
                   sock, clients, hpc, hroot, hreqs, log, served>>

\* The flag loop.  An uncaught exception ends the process with status 1.
ParseFlags ==
    /\ pc = "flags"
    /\ LET st == FlagLoop(FlagDefaults, args, 2)
       IN  /\ base_url' = st.base_url
           /\ port' = st.port
           /\ cert_file' = st.cert_file
           /\ key_file' = st.key_file
           /\ reads' = st.reads
           /\ exc' = st.raised
           /\ IF st.raised = "none"
              THEN pc' = "create" /\ UNCHANGED exit_code
              ELSE pc' = "crashed" /\ exit_code' = 1
    /\ UNCHANGED <<args, root_dir, stdout, sock, clients, hpc, hroot, hreqs, log, served>>

\* http.server.HTTPServer(server_address, handler): binds and listens, or
\* raises OSError (address in use, no permission, unknown host).
CreateServer ==
    /\ pc = "create"
    /\ \/ /\ sock' = "plain"
          /\ pc' = "wrap"
          /\ UNCHANGED <<exc, exit_code>>
       \/ /\ exc' = "OSError"
          /\ exit_code' = 1
          /\ pc' = "crashed"
          /\ UNCHANGED sock
    /\ UNCHANGED <<args, root_dir, base_url, port, cert_file, key_file, reads,
                   stdout, clients, hpc, hroot, hreqs, log, served>>

\* if cert_file and key_file: load the pair and wrap the socket;
\* load_cert_chain raises when the files cannot be loaded.
WrapTLS ==
    /\ pc = "wrap"
    /\ IF UseTLS(cert_file, key_file)
       THEN /\ stdout' = Append(stdout, "enabling_https")
            /\ \/ /\ sock' = "tls"
                  /\ pc' = "announce"
                  /\ UNCHANGED <<exc, exit_code>>
               \/ /\ exc' = "SSLError"
                  /\ exit_code' = 1
                  /\ pc' = "crashed"
                  /\ UNCHANGED sock
       ELSE /\ pc' = "announce"
            /\ UNCHANGED <<stdout, sock, exc, exit_code>>
    /\ UNCHANGED <<args, root_dir, base_url, port, cert_file, key_file, reads,
                   clients, hpc, hroot, hreqs, log, served>>

\* The three prints and the entry into httpd.serve_forever().
ServeForever ==
    /\ pc = "announce"
    /\ stdout' = stdout \o <<"serving_on", "serving_directory",
                             IF UseTLS(cert_file, key_file)
                             THEN "running_https" ELSE "running_http">>
    /\ pc' = "serving"
    /\ UNCHANGED <<args, root_dir, base_url, port, cert_file, key_file, reads,
                   exc, exit_code, sock, clients, hpc, hroot, hreqs, log, served>>

----------------------------------------------------------------------------
(* The server loop and the handler *)

\* HTTPServer handles one connection at a time: finish_request calls the
\* handler lambda, which creates the handler instance.
Accept(h) ==
    /\ pc = "serving"
    /\ hpc[h] = "free"
    /\ \A g \in Handlers : hpc[g] \in {"free", "finished"}
    /\ \A g \in Handlers : g < h => hpc[g] = "finished"
    /\ clients > 0
    /\ clients' = clients - 1
    /\ hpc' = [hpc EXCEPT ![h] = "new"]
    /\ UNCHANGED <<mainvars, hroot, hreqs, log, served>>

\* The lambda passes no root_dir, so __init__ stores its default.
HandlerInitDefault(h) ==
    /\ hpc[h] = "new"
    /\ hroot' = [hroot EXCEPT ![h] = None]
    /\ hpc' = [hpc EXCEPT ![h] = "handling"]
    /\ UNCHANGED <<mainvars, clients, hreqs, log, served>>

\* __init__ calls super().__init__ first; the assignment would follow it.
HandlerInitSuperFirst(h) ==
    /\ hpc[h] = "new"
    /\ hpc' = [hpc EXCEPT ![h] = "handling"]
    /\ UNCHANGED <<mainvars, clients, hroot, hreqs, log, served>>

\* __init__: self.root_dir = root_dir (the lambda's captured value), then
\* super().__init__(...), inside which the connection's requests are handled.
HandlerInit(h) ==
    /\ hpc[h] = "new"
    /\ hroot' = [hroot EXCEPT ![h] = root_dir]
    /\ hpc' = [hpc EXCEPT ![h] = "handling"]
    /\ UNCHANGED <<mainvars, clients, hreqs, log, served>>

Entry(h, p, r) ==
    [path |-> p, root |-> hroot[h], raised |-> r.raised, value |-> r.value]

\* translate_path stores its result as the handler's new root.
HandleOneRequestRebasing(h, p) ==
    /\ hpc[h] = "handling"
    /\ hreqs[h] < MaxReqsPerConn
    /\ LET r == translate_path(hroot[h], p)
       IN  /\ log' = log \cup {Entry(h, p, r)}
           /\ hroot' = [hroot EXCEPT ![h] = IF r.raised = "none" THEN r.value ELSE @]
           /\ hpc' = [hpc EXCEPT ![h] = IF r.raised = "none" THEN @ ELSE "finished"]
    /\ hreqs' = [hreqs EXCEPT ![h] = @ + 1]
    /\ served' = served + 1
    /\ UNCHANGED <<mainvars, clients>>

\* One GET or HEAD request on the connection: send_head calls
\* translate_path(self.path).  An exception leaves the handler; the server
\* reports it and goes on.
HandleOneRequest(h, p) ==
    /\ hpc[h] = "handling"
    /\ hreqs[h] < MaxReqsPerConn
    /\ LET r == translate_path(hroot[h], p)
       IN  /\ log' = log \cup {Entry(h, p, r)}
           /\ hpc' = [hpc EXCEPT ![h] = IF r.raised = "none" THEN @ ELSE "finished"]
    /\ hreqs' = [hreqs EXCEPT ![h] = @ + 1]
    /\ served' = served + 1
    /\ UNCHANGED <<mainvars, clients, hroot>>

\* The connection closes and super().__init__ returns.
HandlerFinish(h) ==
    /\ hpc[h] = "handling"
    /\ hpc' = [hpc EXCEPT ![h] = "finished"]
    /\ UNCHANGED <<mainvars, clients, hroot, hreqs, log, served>>

----------------------------------------------------------------------------
(* Request paths *)

\* A request path is a concatenation of at most MaxPieces of these.
Pieces ==
    {<<"/">>, <<".">>, <<"%">>, <<"2">>, <<"5">>, <<"e">>, <<"x">>,
     <<"%", "2", "e">>, <<"%", "2", "F">>,
     <<".", ".">>, <<"%", "2", "e", "%", "2", "e">>}

RequestPaths == {Concat(ps) : ps \in SeqsUpTo(Pieces, MaxPieces)}

\* The paths requested of the running server.
ServerPaths == {<<"/", "x">>, <<"%", "2", "F", "x">>}

\* The directory arguments the resolver is exercised with.
DirArgs == {<<"/", "s">>, <<"/">>, <<"w">>}

\* The command lines the serving phase is explored with.
ServeArgvs ==
    {<<d>> \o r : d \in DirArgs,
                  r \in {<<>>, <<PORT, <<"8", "0">>>>,
                         <<CERT, <<"8", "0">>, KEY, <<"8", "0">>>>}}

----------------------------------------------------------------------------
(* Specifications *)

\* The state when main() is entered, for a command line and a number of
\* clients that will connect.
Start(argvs, n) ==
    /\ args \in argvs
    /\ clients = n
    /\ pc = "start"
    /\ root_dir = None
    /\ base_url = DefaultHost
    /\ port = DefaultPort
    /\ cert_file = None
    /\ key_file = None
    /\ reads = {}
    /\ exc = "none"
    /\ exit_code = -1
    /\ stdout = <<>>
    /\ sock = "none"
    /\ hpc = [h \in Handlers |-> "free"]
    /\ hroot = [h \in Handlers |-> Unset]
    /\ hreqs = [h \in Handlers |-> 0]
    /\ log = {}
    /\ served = 0

\* Every command line of Argvs, BootConns connections.
Init == Start(Argvs, BootConns)

\* A few command lines, MaxConns connections.
InitServe == Start(ServeArgvs, MaxConns)

Next ==
    \/ ParseDirectory
    \/ ParseFlags
    \/ CreateServer
    \/ WrapTLS
    \/ ServeForever
    \/ \E h \in Handlers : Accept(h)
    \/ \E h \in Handlers : HandlerInit(h)
    \/ \E h \in Handlers : \E p \in ServerPaths : HandleOneRequest(h, p)
    \/ \E h \in Handlers : HandlerFinish(h)

Spec == Init /\ [][Next]_vars

SpecServe == InitServe /\ [][Next]_vars

\* The resolver alone: the server started with only a directory argument is
\* serving plain HTTP, its first handler is inside super().__init__ (the
\* state Spec reaches by ParseDirectory, ParseFlags, CreateServer, WrapTLS,
\* ServeForever, Accept(1), HandlerInit(1)), and one request path out of
\* RequestPaths arrives.
InitResolve ==
    /\ \E d \in DirArgs : args = <<d>> /\ root_dir = abspath(d)
    /\ pc = "serving"
    /\ base_url = DefaultHost
    /\ port = DefaultPort
    /\ cert_file = None
    /\ key_file = None
    /\ reads = {}
    /\ exc = "none"
    /\ exit_code = -1
    /\ stdout = <<"serving_on", "serving_directory", "running_http">>
    /\ sock = "plain"
    /\ clients = BootConns - 1
    /\ hpc = [h \in Handlers |-> IF h = 1 THEN "handling" ELSE "free"]
    /\ hroot = [h \in Handlers |-> IF h = 1 THEN root_dir ELSE Unset]
    /\ hreqs = [h \in Handlers |-> 0]
    /\ log = {}
    /\ served = 0

NextResolve ==
    /\ served = 0
    /\ \E p \in RequestPaths : HandleOneRequest(1, p)

SpecResolve == InitResolve /\ [][NextResolve]_vars

----------------------------------------------------------------------------
(* Properties of translate_path (checked under SpecResolve) *)

\* The percent-decoded form of a request path.
Decoded(p) == unquoteFrom(p, 1)

\* s is d without its leading "/" characters.
IsStrippedOf(s, d) ==
    \E k \in 0..Len(d) :
        /\ \A i \in 1..k : d[i] = SLASH
        /\ k < Len(d) => d[k + 1] /= SLASH
        /\ s = SubSeq(d, k + 1, Len(d))

\* root followed by one "/" (unless root ends with one) and then s.
Anchored(root, s) ==
    IF endswith(root, SLASH) THEN root \o s ELSE root \o <<SLASH>> \o s

\* C1: every translate_path call returns join(root, s), s being the decoded
\* request path without its leading "/" characters (decode, strip, join);
\* in particular "/x/x" resolves to join(root, "x/x").
C1_DecodeStripJoin ==
    \A e \in log :
        /\ e.raised = "none"
        /\ \E k \in 0..Len(Decoded(e.path)) :
               LET s == SubSeq(Decoded(e.path), k + 1, Len(Decoded(e.path)))
               IN  /\ IsStrippedOf(s, Decoded(e.path))
                   /\ e.value = Anchored(e.root, s)
        /\ e.path = <<"/", "x", "/", "x">> => e.value = Anchored(e.root, <<"x", "/", "x">>)

\* A path with a literal and an encoded leading "/" has been resolved to
\* root/x.
C1_Witness ==
    \E e \in log :
        /\ e.path = <<"/", "%", "2", "F", "/", "x">>
        /\ e.root = <<"/", "s">>
        /\ e.value = <<"/", "s", "/", "x">>

\* C2: there is no fallback: every resolved path begins with root followed by
\* a "/", whatever the decoded path begins with, so no other base is used.
C2_AlwaysUnderRoot ==
    \A e \in log :
        /\ e.raised = "none"
        /\ IsPrefix(Anchored(e.root, <<>>), e.value)

\* A path whose decoded form is absolute ("%2Fe" is "/e") has been resolved
\* under a root other than "/".
C2_Witness ==
    \E e \in log :
        /\ e.path = <<"%", "2", "F", "e">>
        /\ e.root = <<"/", "h", "/", "w">>
        /\ e.value = <<"/", "h", "/", "w", "/", "e">>

\* Position i of p holds a "%" that starts no escape of two hex digits.
MalformedAt(p, i) ==
    /\ p[i] = PERCENT
    /\ ~(i + 2 <= Len(p) /\ p[i + 1] \in HexDigits /\ p[i + 2] \in HexDigits)

\* An escape at i that decodes to a byte which is no UTF-8 text on its own.
UndecodableAt(p, i) ==
    /\ p[i] = PERCENT
    /\ i + 2 <= Len(p) /\ p[i + 1] \in HexDigits /\ p[i + 2] \in HexDigits
    /\ 16 * HexVal(p[i + 1]) + HexVal(p[i + 2]) >= 128

InvalidEncoding(p) == \E i \in 1..Len(p) : MalformedAt(p, i) \/ UndecodableAt(p, i)

\* C3: a request path with invalid percent-encoding raises nothing in
\* translate_path and resolves under root; where no "%" of it starts an
\* escape, the path is passed through literally.
C3_InvalidEncodingNeverFails ==
    \A e \in log :
        InvalidEncoding(e.path) =>
            /\ e.raised = "none"
            /\ IsPrefix(Anchored(e.root, <<>>), e.value)
            /\ (\A i \in 1..Len(e.path) : e.path[i] = PERCENT => MalformedAt(e.path, i))
                   => \E s \in {SubSeq(e.path, k, Len(e.path)) : k \in 1..(Len(e.path) + 1)} :
                          IsStrippedOf(s, e.path) /\ e.value = Anchored(e.root, s)

\* A trailing "%" and a "%" before a non-hex character have been resolved.
C3_Witness ==
    \E e \in log :
        /\ e.path = <<"/", "%", "x", "%">>
        /\ e.raised = "none"
        /\ e.value = e.root \o <<"/", "%", "x", "%">>

\* The number of ".." components of a path.
DotDots(s) == Cardinality({i \in 1..Len(split(s)) : split(s)[i] = <<DOT, DOT>>})

\* C8: translate_path leaves ".." segments in place: when the decoded path
\* has ".." segments, the result is root joined with the stripped decoded
\* path, with every one of those segments still in it.
C8_DotDotKept ==
    \A e \in log :
        LET s == lstrip(Decoded(e.path))
        IN  DotDots(s) > 0 =>
                /\ e.raised = "none"
                /\ e.value = Anchored(e.root, s)
                /\ DotDots(e.value) = DotDots(s)

\* An encoded ".." has been resolved to a path that normalises to a
\* location outside root.
C8_Witness ==
    \E e \in log :
        /\ e.path = <<"/", "%", "2", "e", "%", "2", "e", "/", "x">>
        /\ e.root = <<"/", "s">>
        /\ DotDots(e.value) = 1
        /\ ~IsPrefix(e.root, normpath(e.value))

----------------------------------------------------------------------------
(* Properties of the handler (checked under SpecServe) *)

\* The root directory main() computes from the command line.
StartupRoot == abspath(args[1])

\* No two logged resolutions of one path differ.
Repeatable ==
    \A e1 \in log : \A e2 \in log :
        e1.path = e2.path => e1.value = e2.value /\ e1.raised = e2.raised

\* C4: resolving a path again, whatever was resolved in between, gives the
\* same output, and a resolution changes neither a handler's root_dir nor
\* any variable of main().
C4_ResolutionRepeatable ==
    /\ []Repeatable
    /\ [][served' /= served => UNCHANGED <<hroot, mainvars>>]_vars

\* Three resolutions have produced two distinct log entries: one path was
\* resolved twice, with another resolved as well, and the outputs agreed.
C4_Witness ==
    /\ served = 3
    /\ Cardinality(log) = 2
    /\ Cardinality({e.path : e \in log}) = 2

\* C5: once main() has computed root_dir it never changes, and every handler
\* instance that has run __init__ holds that startup value for good.
C5_RootWriteOnce ==
    /\ [](pc \notin {"start", "exited"} => root_dir = StartupRoot)
    /\ [](\A h \in Handlers : hpc[h] \in {"handling", "finished"} => hroot[h] = StartupRoot)
    /\ [][pc /= "start" => root_dir' = root_dir]_vars
    /\ [][\A h \in Handlers : hroot[h] /= Unset => hroot'[h] = hroot[h]]_vars

\* Two handler instances exist, one finished after serving requests and one
\* serving, both with the startup root.
C5_Witness ==
    /\ hpc[1] = "finished"
    /\ hpc[2] = "handling"
    /\ hreqs[1] > 0
    /\ hreqs[2] > 0
    /\ hroot[1] = StartupRoot
    /\ hroot[2] = StartupRoot

\* C10: a handler is inside super().__init__ only with its root_dir already
\* set to main's root_dir, so no translate_path call has seen a missing or
\* None root_dir or failed for it.
C10_RootSetBeforeRequests ==
    /\ \A h \in Handlers :
           hpc[h] = "handling" => hroot[h] = root_dir /\ hroot[h] \notin {Unset, None}
    /\ \A e \in log :
           /\ e.root \notin {Unset, None}
           /\ e.root = root_dir
           /\ e.raised \notin {"AttributeError", "TypeError"}

\* translate_path has run inside a handler's constructor.
C10_Witness ==
    \E h \in Handlers :
        /\ hpc[h] = "handling"
        /\ hreqs[h] > 0
        /\ \E e \in log : e.root = hroot[h] /\ e.raised = "none"

----------------------------------------------------------------------------
(* Properties of main() (checked under Spec) *)

\* C6: started with no arguments, the program prints the usage line and
\* exits with status 1, having created no socket, loaded no certificate and
\* served no request.
C6_NoArgsUsageExit ==
    (args = <<>> /\ pc /= "start") =>
        /\ pc = "exited"
        /\ exit_code = 1
        /\ stdout = <<"usage">>
        /\ exc = "none"
        /\ sock = "none"
        /\ served = 0
        /\ \A h \in Handlers : hpc[h] = "free"

\* The program has exited on an empty command line.
C6_Witness == args = <<>> /\ pc = "exited" /\ exit_code = 1

\* Flag f occurs after the first argument and is followed by an argument.
Supplied(f) == \E i \in 2..(Len(args) - 1) : args[i] = f

\* The argument after the last such occurrence of f.
LastValue(f) ==
    LET last == CHOOSE i \in 2..(Len(args) - 1) :
                    args[i] = f /\ \A j \in 2..(Len(args) - 1) : args[j] = f => j <= i
    IN  args[last + 1]

SuppliedNonEmpty(f) == Supplied(f) /\ LastValue(f) /= <<>>

\* C7 as stated: the running server terminates TLS exactly when both --cert
\* and --key were given with a value.
C7_Original ==
    pc = "serving" => (sock = "tls" <=> Supplied(CERT) /\ Supplied(KEY))

\* C7 amended: the running server terminates TLS exactly when both --cert
\* and --key were given, after the first argument, with a last value that is
\* not empty; the pair is loaded and the socket wrapped before a request is
\* served, and without both no certificate is loaded at all.
C7_TlsIffBothNonEmpty ==
    /\ pc \in {"announce", "serving"} =>
           (sock = "tls" <=> SuppliedNonEmpty(CERT) /\ SuppliedNonEmpty(KEY))
    /\ (SuppliedNonEmpty(CERT) /\ SuppliedNonEmpty(KEY) /\ served > 0) => sock = "tls"
    /\ ~(SuppliedNonEmpty(CERT) /\ SuppliedNonEmpty(KEY)) =>
           /\ sock /= "tls"
           /\ exc /= "SSLError"
           /\ \A i \in 1..Len(stdout) : stdout[i] \notin {"enabling_https", "running_https"}

\* A request has been served over the wrapped socket.
C7_Witness ==
    /\ pc = "serving"
    /\ sock = "tls"
    /\ served > 0
    /\ SuppliedNonEmpty(CERT)
    /\ SuppliedNonEmpty(KEY)

\* The last argument is a flag (and is not the directory).
TrailingFlag == Len(args) >= 2 /\ args[Len(args)] \in Flags

AfterFlags == pc \notin {"start", "flags", "exited"}

\* C9 as stated: when a flag is the last argument, the parser indexes the
\* position after it.
C9_Original ==
    (AfterFlags /\ TrailingFlag) => (Len(args) + 1) \in reads

\* The value a flag's setting ends with: the argument after the flag's last
\* occurrence that has one, else the default.
Setting(f, default) == IF Supplied(f) THEN LastValue(f) ELSE default

\* C9 amended: the parser indexes the position after a flag only when that
\* position exists; a flag that is the last argument is compared and then
\* skipped: nothing is raised for it and it sets nothing, every setting being
\* the default or the argument after an earlier occurrence of its flag.
C9_TrailingFlagSkipped ==
    AfterFlags =>
        /\ reads \subseteq 1..Len(args)
        /\ exc /= "IndexError"
        /\ (TrailingFlag /\ exc /= "ValueError") =>
               /\ Len(args) \in reads
               /\ base_url = Setting(HOST, DefaultHost)
               /\ cert_file = Setting(CERT, None)
               /\ key_file = Setting(KEY, None)
               /\ port = IF Supplied(PORT) THEN DecimalValue(LastValue(PORT))
                         ELSE DefaultPort

\* The server is serving although the command line ended with a flag.
C9_Witness ==
    /\ pc = "serving"
    /\ TrailingFlag
    /\ Len(args) \in reads

====
